---- MODULE Spec2Model ----
(***************************************************************************)
(* Model of the decimal literal parser of decimal-rs (src/parse.rs).       *)
(*                                                                         *)
(* A byte slice is a sequence of one-character strings.  Every function of *)
(* parse.rs is an operator of the same name; from_str is walked through    *)
(* by the actions EatWhitespaces, ExtractNan, ParseStr and CheckTrailing.  *)
(* The u128 magnitude is kept as its sequence of decimal digit values      *)
(* (most significant first, no leading zero, <<>> for zero), so that the   *)
(* 38-digit bound of the program can be checked at its real size.          *)
(***************************************************************************)
EXTENDS Integers, Sequences, FiniteSets, TLC

\* ------------------------------------------------------------------------
\* Constants the parser imports from crate::decimal.
MAX_PRECISION == 38
MAX_SCALE == 130
MIN_SCALE == -126

\* ------------------------------------------------------------------------
\* Bounds of the model.
MaxRawLen == 4
MaxPad == 1

\* ------------------------------------------------------------------------
\* Bytes.
DigitChars == <<"0", "1", "2", "3", "4", "5", "6", "7", "8", "9">>

Digit == {DigitChars[i] : i \in 1..10}

\* n - b'0'
DigitVal == [c \in Digit |-> (CHOOSE i \in 1..10 : DigitChars[i] = c) - 1]

\* u8::is_ascii_digit
is_ascii_digit(c) == c \in Digit

\* u8::is_ascii_whitespace: space, tab, line feed, form feed, carriage return
is_ascii_whitespace(c) == c \in {" ", "\t", "\n", "\f", "\r"}

UpperChars == <<"A", "B", "C", "D", "E", "F", "G", "H", "I", "J", "K", "L", "M",
                "N", "O", "P", "Q", "R", "S", "T", "U", "V", "W", "X", "Y", "Z">>

LowerChars == <<"a", "b", "c", "d", "e", "f", "g", "h", "i", "j", "k", "l", "m",
                "n", "o", "p", "q", "r", "s", "t", "u", "v", "w", "x", "y", "z">>

\* u8::make_ascii_lowercase on one byte
to_ascii_lowercase(c) ==
    IF \E i \in 1..26 : UpperChars[i] = c
    THEN LowerChars[CHOOSE i \in 1..26 : UpperChars[i] = c]
    ELSE c

\* [u8; 3]::make_ascii_lowercase
make_ascii_lowercase(buf) == [i \in 1..Len(buf) |-> to_ascii_lowercase(buf[i])]

\* &s[i..] with a 0-based i
SliceFrom(s, i) == SubSeq(s, i + 1, Len(s))

\* &s[..i] with a 0-based i
SliceTo(s, i) == SubSeq(s, 1, i)

\* ------------------------------------------------------------------------
\* Fixed-width integers.
Wrap16(x) == ((x + 32768) % 65536) - 32768

\* 2^128 - 1, most significant digit first
U128_MAX ==
    <<3, 4, 0, 2, 8, 2, 3, 6, 6, 9, 2, 0, 9, 3, 8, 4, 6, 3, 4, 6,
      3, 3, 7, 4, 6, 0, 7, 4, 3, 1, 7, 6, 8, 2, 1, 1, 4, 5, 5>>

\* a <= b for two digit sequences of the same length
RECURSIVE DigitsLeq(_, _, _)
DigitsLeq(a, b, i) ==
    IF i > Len(a) THEN TRUE
    ELSE IF a[i] < b[i] THEN TRUE
    ELSE IF a[i] > b[i] THEN FALSE
    ELSE DigitsLeq(a, b, i + 1)

FitsU128(n) ==
    \/ Len(n) < Len(U128_MAX)
    \/ Len(n) = Len(U128_MAX) /\ DigitsLeq(n, U128_MAX, 1)

\* What an overflowing u128 step leaves behind (a panic in a checked build,
\* a value modulo 2^128 otherwise): no digit sequence of a number
Wrapped == <<-1>>

\* int * 10 + d in u128
MulAddU128(int, d) ==
    IF int = Wrapped THEN Wrapped
    ELSE LET r == IF int = <<>> /\ d = 0 THEN <<>> ELSE Append(int, d)
         IN  IF FitsU128(r) THEN r ELSE Wrapped

\* ------------------------------------------------------------------------
\* Results.
Positive == "Positive"

Negative == "Negative"

Empty == "Empty"

Invalid == "Invalid"

Overflow == "Overflow"

NoParts == [sign |-> Positive, integral |-> <<>>, fractional |-> <<>>, exp |-> 0]

NoDecimal == [int_val |-> <<>>, scale |-> 0, negative |-> FALSE]

\* Err(e), with the fields of every Ok value left at a default
Err(e) ==
    [ok |-> FALSE, err |-> e, exp |-> 0, parts |-> NoParts, dec |-> NoDecimal,
     rest |-> <<>>]

OkExp(exp, rest) ==
    [ok |-> TRUE, err |-> "", exp |-> exp, parts |-> NoParts, dec |-> NoDecimal,
     rest |-> rest]

OkParts(parts, rest) ==
    [ok |-> TRUE, err |-> "", exp |-> parts.exp, parts |-> parts,
     dec |-> NoDecimal, rest |-> rest]

OkDecimal(dec, rest) ==
    [ok |-> TRUE, err |-> "", exp |-> 0, parts |-> NoParts, dec |-> dec,
     rest |-> rest]

\* Decimal::from_parts_unchecked(int, scale, negative): no validation
from_parts_unchecked(int, scale, negative) ==
    [int_val |-> int, scale |-> scale, negative |-> negative]

\* ------------------------------------------------------------------------
\* The scanners.

\* s.iter().take_while(|i| pred(i)).count(), from the 1-based position i
RECURSIVE CountDigits(_, _)
CountDigits(s, i) ==
    IF i <= Len(s) /\ is_ascii_digit(s[i]) THEN 1 + CountDigits(s, i + 1) ELSE 0

RECURSIVE CountWhitespaces(_, _)
CountWhitespaces(s, i) ==
    IF i <= Len(s) /\ is_ascii_whitespace(s[i])
    THEN 1 + CountWhitespaces(s, i + 1)
    ELSE 0

extract_sign(s) ==
    IF s # <<>> /\ s[1] = "+" THEN [sign |-> Positive, rest |-> SliceFrom(s, 1)]
    ELSE IF s # <<>> /\ s[1] = "-" THEN [sign |-> Negative, rest |-> SliceFrom(s, 1)]
    ELSE [sign |-> Positive, rest |-> s]

eat_digits(s) ==
    LET i == CountDigits(s, 1)
    IN  [digits |-> SliceTo(s, i), rest |-> SliceFrom(s, i)]

eat_whitespaces(s) ==
    LET i == CountWhitespaces(s, 1)
    IN  SliceFrom(s, i)

\* extract_nan with the flag of a match lost: the token is consumed
extract_nan_unflagged(s) ==
    IF Len(s) < 3 THEN [is_nan |-> FALSE, rest |-> s]
    ELSE LET buf == make_ascii_lowercase(SubSeq(s, 1, 3))
         IN  IF buf = <<"n", "a", "n">>
             THEN [is_nan |-> FALSE, rest |-> SliceFrom(s, 3)]
             ELSE [is_nan |-> FALSE, rest |-> s]

extract_nan(s) ==
    IF Len(s) < 3 THEN [is_nan |-> FALSE, rest |-> s]
    ELSE LET buf == make_ascii_lowercase(SubSeq(s, 1, 3))
         IN  IF buf = <<"n", "a", "n">>
             THEN [is_nan |-> TRUE, rest |-> SliceFrom(s, 3)]
             ELSE [is_nan |-> FALSE, rest |-> s]

\* ------------------------------------------------------------------------
\* extract_exponent

\* the exponent digits with their leading zeros left in place
exponent_zeros_kept(number) == number

\* while number.first() == Some(&b'0') { number = &number[1..]; }
RECURSIVE strip_exponent_zeros(_)
strip_exponent_zeros(number) ==
    IF number # <<>> /\ number[1] = "0"
    THEN strip_exponent_zeros(SliceFrom(number, 1))
    ELSE number

\* for &n in number { result = result * 10 + (n - b'0') as i16; }
RECURSIVE accumulate_i16(_, _)
accumulate_i16(result, number) ==
    IF number = <<>> THEN result
    ELSE accumulate_i16(Wrap16(result * 10 + DigitVal[number[1]]),
                        SliceFrom(number, 1))

exponent_too_long(number) == Len(number) > 3

exponent_out_of_range(exp) == exp > -MIN_SCALE \/ exp < -MAX_SCALE

extract_exponent(s) ==
    LET signed == extract_sign(s)
        eaten  == eat_digits(signed.rest)
    IN  IF eaten.digits = <<>> THEN Err(Invalid)
        ELSE LET number == strip_exponent_zeros(eaten.digits)
             IN  IF exponent_too_long(number) THEN Err(Overflow)
                 ELSE LET result == accumulate_i16(0, number)
                          exp == IF signed.sign = Positive THEN result
                                 ELSE Wrap16(-result)
                      IN  IF exponent_out_of_range(exp) THEN Err(Overflow)
                          ELSE OkExp(exp, eaten.rest)

\* ------------------------------------------------------------------------
\* parse_decimal

\* while integral.first() == Some(&b'0') && integral.len() > 1 { ... }
RECURSIVE strip_integral_zeros(_)
strip_integral_zeros(integral) ==
    IF integral # <<>> /\ integral[1] = "0" /\ Len(integral) > 1
    THEN strip_integral_zeros(SliceFrom(integral, 1))
    ELSE integral

\* the fractional run with its trailing zeros left in place
fractional_zeros_kept(fractional) == fractional

\* while fractional.last() == Some(&b'0') { ... }
RECURSIVE strip_fractional_zeros(_)
strip_fractional_zeros(fractional) ==
    IF fractional # <<>> /\ fractional[Len(fractional)] = "0"
    THEN strip_fractional_zeros(SliceTo(fractional, Len(fractional) - 1))
    ELSE fractional

is_exponent_marker(s) == s # <<>> /\ s[1] \in {"e", "E"}

\* the arm Some(&b'e') | Some(&b'E') of the outer match
exponent_arm(sign, integral, s) ==
    IF integral = <<>> THEN Err(Invalid)
    ELSE LET e == extract_exponent(SliceFrom(s, 1))
         IN  IF ~e.ok THEN e
             ELSE OkParts([sign |-> sign, integral |-> integral,
                           fractional |-> <<>>, exp |-> e.exp], e.rest)

\* the arm Some(&b'.') of the outer match
point_arm(sign, integral, s) ==
    LET eaten == eat_digits(SliceFrom(s, 1))
    IN  IF integral = <<>> /\ eaten.digits = <<>> THEN Err(Invalid)
        ELSE LET fractional == strip_fractional_zeros(eaten.digits)
             IN  IF is_exponent_marker(eaten.rest)
                 THEN LET e == extract_exponent(SliceFrom(eaten.rest, 1))
                      IN  IF ~e.ok THEN e
                          ELSE OkParts([sign |-> sign, integral |-> integral,
                                        fractional |-> fractional,
                                        exp |-> e.exp], e.rest)
                 ELSE OkParts([sign |-> sign, integral |-> integral,
                               fractional |-> fractional, exp |-> 0],
                              eaten.rest)

\* the arm _ of the outer match
plain_arm(sign, integral, s) ==
    IF integral = <<>> THEN Err(Invalid)
    ELSE OkParts([sign |-> sign, integral |-> integral, fractional |-> <<>>,
                  exp |-> 0], s)

parse_decimal(s) ==
    LET signed == extract_sign(s)
    IN  IF signed.rest = <<>> THEN Err(Invalid)
        ELSE LET eaten    == eat_digits(signed.rest)
                 integral == strip_integral_zeros(eaten.digits)
             IN  IF is_exponent_marker(eaten.rest)
                 THEN exponent_arm(signed.sign, integral, eaten.rest)
                 ELSE IF eaten.rest # <<>> /\ eaten.rest[1] = "."
                 THEN point_arm(signed.sign, integral, eaten.rest)
                 ELSE plain_arm(signed.sign, integral, eaten.rest)

\* ------------------------------------------------------------------------
\* parse_str

\* the precision with the integral "0" counted as a digit
precision_of_all_digits(integral, fractional) ==
    Len(integral) + Len(fractional)

precision_of(integral, fractional) ==
    IF integral = <<"0">> THEN Len(fractional)
    ELSE Len(integral) + Len(fractional)

\* the scale with the exponent added instead of subtracted
scale_of_added(fractional, exp) == Wrap16(Len(fractional) + exp)

scale_of(fractional, exp) == Wrap16(Len(fractional) - exp)

scale_out_of_range(scale) == scale > MAX_SCALE \/ scale < MIN_SCALE

\* for &i in digits { int = int * 10 + (i - b'0') as u128; }
RECURSIVE accumulate_u128(_, _)
accumulate_u128(int, digits) ==
    IF digits = <<>> THEN int
    ELSE accumulate_u128(MulAddU128(int, DigitVal[digits[1]]),
                         SliceFrom(digits, 1))

\* the sign flag taken from the sign byte alone, for zero too
negative_of_sign_only(int, sign) == sign = Negative

negative_of(int, sign) == IF int # <<>> THEN sign = Negative ELSE FALSE

parse_str(s) ==
    LET p == parse_decimal(s)
    IN  IF ~p.ok THEN p
        ELSE LET integral   == p.parts.integral
                 fractional == p.parts.fractional
                 precision  == precision_of(integral, fractional)
             IN  IF precision > MAX_PRECISION THEN Err(Overflow)
                 ELSE LET scale == scale_of(fractional, p.parts.exp)
                      IN  IF scale_out_of_range(scale) THEN Err(Overflow)
                          ELSE LET int == accumulate_u128(
                                              accumulate_u128(<<>>, integral),
                                              fractional)
                                   negative == negative_of(int, p.parts.sign)
                               IN  OkDecimal(from_parts_unchecked(
                                                 int, scale, negative), p.rest)

\* the trailing check looking at the first remaining byte only
has_garbage_at_front(s) == s # <<>> /\ ~is_ascii_whitespace(s[1])

\* s.iter().any(|n| !n.is_ascii_whitespace())
has_garbage(s) == \E i \in 1..Len(s) : ~is_ascii_whitespace(s[i])

\* ------------------------------------------------------------------------
\* from_str, as one function
from_str(str) ==
    LET s == eat_whitespaces(str)
    IN  IF s = <<>> THEN Err(Empty)
        ELSE LET nan == extract_nan(s)
             IN  IF nan.is_nan THEN Err(Invalid)
                 ELSE LET n == parse_str(nan.rest)
                      IN  IF ~n.ok THEN n
                          ELSE IF has_garbage(n.rest) THEN Err(Invalid)
                          ELSE OkDecimal(n.dec, <<>>)

\* ------------------------------------------------------------------------
\* The inputs of the model.
Rep(c, n) == [i \in 1..n |-> c]

Nines(n) == Rep("9", n)

\* the decimal text of a natural number
RECURSIVE DecimalText(_)
DecimalText(n) ==
    IF n < 10 THEN <<DigitChars[n + 1]>>
    ELSE Append(DecimalText(n \div 10), DigitChars[(n % 10) + 1])

Pads == {Rep("0", k) : k \in 0..MaxPad}

Signs == {<<>>, <<"+">>, <<"-">>}

RawAlphabet == {" ", "+", "-", "0", "1", ".", "e", "x"}

\* every byte string over RawAlphabet of at most MaxRawLen bytes
RawInputs == UNION {[1..n -> RawAlphabet] : n \in 0..MaxRawLen}

IntegralBodies ==
    {<<>>, <<"0">>, <<"1", "2">>, Nines(MAX_PRECISION - 1), Nines(MAX_PRECISION),
     Nines(MAX_PRECISION + 1)}

FractionalBodies ==
    {<<>>, <<"5">>, <<"0", "5">>, Rep("0", MAX_PRECISION - 1) \o <<"1">>,
     Rep("0", MAX_PRECISION) \o <<"1">>, Nines(MAX_PRECISION),
     <<"0">> \o Nines(MAX_PRECISION)}

IntegralRuns == {z \o b : z \in Pads, b \in IntegralBodies}

FractionalParts ==
    {<<>>} \cup {<<".">> \o b \o z : b \in FractionalBodies, z \in Pads}

FewExponents ==
    {<<>>, <<"e", "0">>, <<"e", "-", "5">>, <<"E", "+", "5">>,
     <<"e", "1", "0", "0", "0">>}

Wraps ==
    {<<<<>>, <<>>>>, <<<<" ", "\t">>, <<"\n", " ">>>>, <<<<>>, <<"x">>>>,
     <<<<" ">>, <<" ", "x">>>>, <<<<>>, <<"e", "+">>>>}

\* literals around the precision bound
PrecisionInputs ==
    {w[1] \o sg \o i \o f \o e \o w[2] :
        w \in Wraps, sg \in Signs, i \in IntegralRuns, f \in FractionalParts,
        e \in FewExponents}

ExponentValues ==
    {0, 1, 5, 999, 1000} \cup ((-MIN_SCALE - 1)..(MAX_SCALE + 1))

ManyExponents ==
    {<<>>} \cup {<<m>> \o sg \o z \o DecimalText(v) :
                   m \in {"e", "E"}, sg \in Signs, z \in Pads,
                   v \in ExponentValues}

\* literals around the scale bounds
ScaleInputs ==
    {sg \o i \o f \o e \o t :
        sg \in {<<>>, <<"-">>},
        i \in {<<>>, <<"0">>, <<"1">>, Nines(MAX_PRECISION - 2)},
        f \in {<<>>, <<".">>, <<".", "5">>, <<".", "2", "5">>},
        e \in ManyExponents, t \in {<<>>, <<"x">>}}

NanTokens == {<<a, b, c>> : a \in {"n", "N"}, b \in {"a", "A"}, c \in {"n", "N"}}

NanTails ==
    {<<>>, <<".">>, <<"1">>, <<" ">>, <<"x">>, <<"e", "1">>,
     <<" ", " ", " ", "1", " ", " ", " ">>, <<" ", " ", " ", ".", " ", " ", " ">>}

\* NaN texts, and near misses
NanInputs ==
    {l \o sg \o k \o t :
        l \in {<<>>, <<" ", " ", " ">>}, sg \in Signs,
        k \in NanTokens \cup {<<"n", "a">>, <<"n", "a", "x">>, <<"a", "n", "n">>},
        t \in NanTails}

\* literals of the tests of parse.rs
TestInputs ==
    {<<"1", "2", "8", ".", "1", "2", "8">>,
     <<"-", "1", "e", "-", "1", "0">>,
     Rep("0", 10) \o <<"1", "e">> \o Rep("0", 10) \o <<"1">>,
     <<"-">> \o Rep("0", 10) \o <<"1", "e", "-">> \o Rep("0", 10) \o <<"1">>,
     <<"-", "0", "e", "5">>,
     <<"0", "0", "0", "0", "1", "2", "3">>,
     <<"1", "2", "3", ".", "4", "5", "0", "0", "0">>,
     <<"1", ".", "2", "3", "4", "5", "6", "0", "0", "0", "e", "3">>,
     <<"1", "2", "3", "4", ".", "5", "6">>,
     Rep("0", 6) \o <<"1", ".", "2", "3", "4", "5", "6", "0", "0", "0", "e", "3">>,
     <<"1", "e", "1", ".", "1">>,
     <<"-", "1", " ", "e", "1">>,
     <<"1", "e", "1", "2", "7">>,
     <<"1", "e", "-", "1", "3", "1">>}

Inputs == RawInputs \cup PrecisionInputs \cup ScaleInputs \cup NanInputs \cup TestInputs

\* ------------------------------------------------------------------------
\* The state of one call of from_str.
VARIABLES
    input,        \* the argument of from_str
    pc,           \* the statement of from_str that runs next
    s,            \* the slice not yet consumed
    constructed,  \* whether from_parts_unchecked has been called
    dec,          \* the Decimal it built
    result        \* what from_str returned: "Ok" or the error

vars == <<input, pc, s, constructed, dec, result>>

Init ==
    /\ input \in Inputs
    /\ pc = "eat_whitespaces"
    /\ s = input
    /\ constructed = FALSE
    /\ dec = NoDecimal
    /\ result = "pending"

\* let s = eat_whitespaces(s); if s.is_empty() { return Err(Empty) }
EatWhitespaces ==
    /\ pc = "eat_whitespaces"
    /\ s' = eat_whitespaces(s)
    /\ IF s' = <<>>
       THEN pc' = "done" /\ result' = Empty
       ELSE pc' = "extract_nan" /\ result' = result
    /\ UNCHANGED <<input, constructed, dec>>

\* let (is_nan, s) = extract_nan(s); if is_nan { Err(Invalid) }
ExtractNan ==
    /\ pc = "extract_nan"
    /\ LET nan == extract_nan(s)
       IN  /\ s' = nan.rest
           /\ IF nan.is_nan
              THEN pc' = "done" /\ result' = Invalid
              ELSE pc' = "parse_str" /\ result' = result
    /\ UNCHANGED <<input, constructed, dec>>

\* let (n, s) = parse_str(s)?;
ParseStr ==
    /\ pc = "parse_str"
    /\ LET n == parse_str(s)
       IN  IF n.ok
           THEN /\ dec' = n.dec
                /\ constructed' = TRUE
                /\ s' = n.rest
                /\ pc' = "check_trailing"
                /\ result' = result
           ELSE /\ pc' = "done"
                /\ result' = n.err
                /\ UNCHANGED <<s, constructed, dec>>
    /\ UNCHANGED input

\* if s.iter().any(|n| !n.is_ascii_whitespace()) { return Err(Invalid) } Ok(n)
CheckTrailing ==
    /\ pc = "check_trailing"
    /\ pc' = "done"
    /\ result' = IF has_garbage(s) THEN Invalid ELSE "Ok"
    /\ UNCHANGED <<input, s, constructed, dec>>

Next ==
    \/ EatWhitespaces
    \/ ExtractNan
    \/ ParseStr
    \/ CheckTrailing

Spec == Init /\ [][Next]_vars

TypeOK ==
    /\ pc \in {"eat_whitespaces", "extract_nan", "parse_str", "check_trailing", "done"}
    /\ result \in {"pending", "Ok", Empty, Invalid, Overflow}
    /\ constructed \in BOOLEAN

\* ------------------------------------------------------------------------
\* The grammar of decimal literals, as the automaton of
\*   decimal_literal := WS* sign? mantissa WS*
\*   mantissa        := integer ('.' fraction?)? exponent? | '.' fraction exponent?
\*   exponent        := ('e'|'E') sign? D+
WS == {" ", "\t", "\n", "\f", "\r"}

GrammarStep(q, c) ==
    CASE q = "start" ->
            IF c \in WS THEN "start"
            ELSE IF c \in {"+", "-"} THEN "sign"
            ELSE IF c \in Digit THEN "integer"
            ELSE IF c = "." THEN "point"
            ELSE "dead"
      [] q = "sign" ->
            IF c \in Digit THEN "integer"
            ELSE IF c = "." THEN "point"
            ELSE "dead"
      [] q = "integer" ->
            IF c \in Digit THEN "integer"
            ELSE IF c = "." THEN "fraction"
            ELSE IF c \in {"e", "E"} THEN "marker"
            ELSE IF c \in WS THEN "trail"
            ELSE "dead"
      [] q = "point" -> IF c \in Digit THEN "fraction" ELSE "dead"
      [] q = "fraction" ->
            IF c \in Digit THEN "fraction"
            ELSE IF c \in {"e", "E"} THEN "marker"
            ELSE IF c \in WS THEN "trail"
            ELSE "dead"
      [] q = "marker" ->
            IF c \in {"+", "-"} THEN "expsign"
            ELSE IF c \in Digit THEN "exponent"
            ELSE "dead"
      [] q = "expsign" -> IF c \in Digit THEN "exponent" ELSE "dead"
      [] q = "exponent" ->
            IF c \in Digit THEN "exponent"
            ELSE IF c \in WS THEN "trail"
            ELSE "dead"
      [] q = "trail" -> IF c \in WS THEN "trail" ELSE "dead"
      [] OTHER -> "dead"

\* the states in which sign? mantissa has just been read in full
NumberRead == {"integer", "fraction", "exponent"}

RECURSIVE GrammarRun(_, _, _)
GrammarRun(q, str, i) ==
    IF i > Len(str) THEN q ELSE GrammarRun(GrammarStep(q, str[i]), str, i + 1)

MatchesGrammar(str) == GrammarRun("start", str, 1) \in NumberRead \cup {"trail"}

\* the length of the longest prefix WS* sign? mantissa of str, 0 if there is none
RECURSIVE LongestNumber(_, _, _, _)
LongestNumber(q, str, i, best) ==
    IF i > Len(str) THEN best
    ELSE LET r == GrammarStep(q, str[i])
         IN  LongestNumber(r, str, i + 1, IF r \in NumberRead THEN i ELSE best)

\* ------------------------------------------------------------------------
\* The fields of a literal, read off its text by position.

\* the first position at or after i of a byte in set, Len(str) + 1 if none
RECURSIVE IndexIn(_, _, _)
IndexIn(str, set, i) ==
    IF i > Len(str) \/ str[i] \in set THEN i ELSE IndexIn(str, set, i + 1)

\* the first position at or after i of a byte outside set
RECURSIVE IndexOut(_, _, _)
IndexOut(str, set, i) ==
    IF i > Len(str) \/ str[i] \notin set THEN i ELSE IndexOut(str, set, i + 1)

\* the last position of a byte outside set, 0 if none
RECURSIVE LastOut(_, _, _)
LastOut(str, set, i) ==
    IF i < 1 \/ str[i] \notin set THEN i ELSE LastOut(str, set, i - 1)

\* str without its leading and trailing whitespace
Trimmed(str) == SubSeq(str, IndexOut(str, WS, 1), LastOut(str, WS, Len(str)))

HasMinus(str) == LET t == Trimmed(str) IN t # <<>> /\ t[1] = "-"

Unsigned(str) ==
    LET t == Trimmed(str)
    IN  IF t # <<>> /\ t[1] \in {"+", "-"} THEN Tail(t) ELSE t

MantissaText(str) ==
    LET u == Unsigned(str) IN SubSeq(u, 1, IndexIn(u, {"e", "E"}, 1) - 1)

HasExponent(str) ==
    LET u == Unsigned(str) IN IndexIn(u, {"e", "E"}, 1) <= Len(u)

\* the digits of the exponent, without marker and sign
ExponentDigits(str) ==
    LET u == Unsigned(str)
        x == SubSeq(u, IndexIn(u, {"e", "E"}, 1) + 1, Len(u))
    IN  IF x # <<>> /\ x[1] \in {"+", "-"} THEN Tail(x) ELSE x

ExponentIsNegative(str) ==
    LET u == Unsigned(str)
        m == IndexIn(u, {"e", "E"}, 1)
    IN  m < Len(u) /\ u[m + 1] = "-"

HasPoint(str) ==
    LET m == MantissaText(str) IN IndexIn(m, {"."}, 1) <= Len(m)

IntegralText(str) ==
    LET m == MantissaText(str) IN SubSeq(m, 1, IndexIn(m, {"."}, 1) - 1)

FractionalText(str) ==
    LET m == MantissaText(str) IN SubSeq(m, IndexIn(m, {"."}, 1) + 1, Len(m))

WithoutLeadingZeros(d) == SubSeq(d, IndexOut(d, {"0"}, 1), Len(d))

WithoutTrailingZeros(d) == SubSeq(d, 1, LastOut(d, {"0"}, Len(d)))

\* the integral run with its leading zeros stripped, one digit kept
NormalIntegral(str) ==
    LET d == IntegralText(str)
        w == WithoutLeadingZeros(d)
    IN  IF d # <<>> /\ w = <<>> THEN <<"0">> ELSE w

NormalFractional(str) == WithoutTrailingZeros(FractionalText(str))

\* the number a digit run of at most 9 significant digits denotes
RECURSIVE NatOf(_)
NatOf(d) ==
    IF d = <<>> THEN 0
    ELSE NatOf(SubSeq(d, 1, Len(d) - 1)) * 10
         + (IF d[Len(d)] \in Digit THEN DigitVal[d[Len(d)]] ELSE 0)

ExponentValue(str) ==
    LET n == NatOf(WithoutLeadingZeros(ExponentDigits(str)))
    IN  IF ExponentIsNegative(str) THEN -n ELSE n

\* the base-10 integer written by the integral run followed by the
\* fractional run without its trailing zeros, as its digit values
MagnitudeOf(str) ==
    LET d == WithoutLeadingZeros(IntegralText(str) \o NormalFractional(str))
    IN  [i \in 1..Len(d) |-> IF d[i] \in Digit THEN DigitVal[d[i]] ELSE -1]

ScaleOf(str) == Len(NormalFractional(str)) - ExponentValue(str)

PrecisionOf(str) ==
    IF NormalIntegral(str) = <<"0">> THEN Len(NormalFractional(str))
    ELSE Len(NormalIntegral(str)) + Len(NormalFractional(str))

\* condition (2): the exponent, if any, is short and within range
ExponentFits(str) ==
    \/ ~HasExponent(str)
    \/ /\ Len(WithoutLeadingZeros(ExponentDigits(str))) <= 3
       /\ ExponentValue(str) >= -MAX_SCALE
       /\ ExponentValue(str) <= -MIN_SCALE

\* condition (3)
PrecisionFits(str) == PrecisionOf(str) <= MAX_PRECISION

\* condition (4); the exponent is read only when it is short
ScaleFits(str) ==
    /\ Len(WithoutLeadingZeros(ExponentDigits(str))) <= 3
    /\ ScaleOf(str) >= MIN_SCALE
    /\ ScaleOf(str) <= MAX_SCALE

\* what a finished call returned: the result and, for Ok, the value
Outcome == [result |-> result, dec |-> IF result = "Ok" THEN dec ELSE NoDecimal]

OutcomeOf(r) ==
    [result |-> IF r.ok THEN "Ok" ELSE r.err,
     dec |-> IF r.ok THEN r.dec ELSE NoDecimal]

Done == pc = "done"

\* ------------------------------------------------------------------------
\* C1: whenever from_str returns a value, the triple handed to the
\* constructor is the integer written by the integral run followed by the
\* fractional run without trailing zeros, the scale is the length of that
\* fractional run minus the exponent (0 without an exponent part), and the
\* value is negative exactly when the literal starts with '-' and the
\* magnitude is not zero.
C1_ValueIsReadOffTheLiteral ==
    (Done /\ result = "Ok") =>
        /\ dec.int_val = MagnitudeOf(input)
        /\ dec.scale = ScaleOf(input)
        /\ dec.negative = (HasMinus(input) /\ MagnitudeOf(input) # <<>>)

\* "-1e-10" has been parsed to (1, 10, negative)
C1_Witness ==
    /\ Done
    /\ result = "Ok"
    /\ input = <<"-", "1", "e", "-", "1", "0">>
    /\ dec = [int_val |-> <<1>>, scale |-> 10, negative |-> TRUE]

C3_DecimalInvariant ==
    constructed =>
        /\ dec.int_val # Wrapped
        /\ Len(dec.int_val) <= MAX_PRECISION
        /\ dec.scale >= MIN_SCALE
        /\ dec.scale <= MAX_SCALE
        /\ (dec.int_val = <<>> => ~dec.negative)

\* a zero written with a '-' has been returned, not negative
C3_Witness ==
    /\ Done
    /\ result = "Ok"
    /\ HasMinus(input)
    /\ dec.int_val = <<>>
    /\ ~dec.negative

\* C4: every literal that denotes zero parses to the triple that "-0"
\* parses to, whatever its sign, its zeros and its exponent.
C4_OneZero ==
    (Done /\ result = "Ok" /\ MagnitudeOf(input) = <<>>) =>
        dec = from_str(<<"-", "0">>).dec

\* C5: a literal of the grammar within the precision bound succeeds when
\* its scale (fractional length minus exponent) is MAX_SCALE or MIN_SCALE,
\* and fails with Overflow when it is MAX_SCALE + 1 or MIN_SCALE - 1.
C5_ScaleBoundary ==
    (/\ Done
     /\ MatchesGrammar(input)
     /\ PrecisionFits(input)
     /\ Len(WithoutLeadingZeros(ExponentDigits(input))) <= 3) =>
        /\ ScaleOf(input) \in {MAX_SCALE, MIN_SCALE} => result = "Ok"
        /\ ScaleOf(input) \in {MAX_SCALE + 1, MIN_SCALE - 1} => result = Overflow

\* C6: a literal of the grammar with exponent and scale in range succeeds
\* when its unscaled magnitude has exactly MAX_PRECISION digits, and fails
\* with Overflow when it has MAX_PRECISION + 1.
C6_PrecisionBoundary ==
    (/\ Done
     /\ MatchesGrammar(input)
     /\ ExponentFits(input)
     /\ ScaleFits(input)) =>
        /\ Len(MagnitudeOf(input)) = MAX_PRECISION => result = "Ok"
        /\ Len(MagnitudeOf(input)) = MAX_PRECISION + 1 => result = Overflow

\* "00000000001e00000000001"
TenZerosOneETenZerosOne ==
    Rep("0", 10) \o <<"1", "e">> \o Rep("0", 10) \o <<"1">>

\* C7, as stated: "00000000001e00000000001" parses to magnitude 10 and
\* scale 0, the exponent folded into the magnitude.
C7_ExponentFolded ==
    (Done /\ input = TenZerosOneETenZerosOne) =>
        /\ result = "Ok"
        /\ dec.int_val = <<1, 0>>
        /\ dec.scale = 0

\* C7, amended: "00000000001e00000000001" parses to magnitude 1 and scale
\* -1, not negative: the exponent is left in the scale.
C7_ExponentKeptInScale ==
    (Done /\ input = TenZerosOneETenZerosOne) =>
        /\ result = "Ok"
        /\ dec = [int_val |-> <<1>>, scale |-> -1, negative |-> FALSE]

C7_Witness ==
    /\ Done
    /\ input = TenZerosOneETenZerosOne
    /\ result = "Ok"
    /\ dec.scale < 0

\* the input is WS* sign? mantissa followed by bytes that are not all
\* whitespace and do not start an exponent the mantissa lacks
NumberOf(str) == SubSeq(str, 1, LongestNumber("start", str, 1, 0))

GarbageAfterNumber(str) ==
    LET n == LongestNumber("start", str, 1, 0)
        rest == SubSeq(str, n + 1, Len(str))
    IN  /\ n > 0
        /\ \E i \in 1..Len(rest) : rest[i] \notin WS
        /\ ~(rest[1] \in {"e", "E"} /\ ~HasExponent(NumberOf(str)))

\* the input is WS* sign? mantissa without exponent, followed by an exponent
\* marker that no sign? D+ follows
ExponentWithoutDigits(str) ==
    LET n == LongestNumber("start", str, 1, 0)
    IN  /\ n > 0
        /\ n < Len(str)
        /\ str[n + 1] \in {"e", "E"}
        /\ ~HasExponent(NumberOf(str))

NumberFits(str) == ExponentFits(str) /\ PrecisionFits(str) /\ ScaleFits(str)

\* the input with whitespace added at both ends
Padded(str) == <<" ", "\t">> \o str \o <<"\n", " ">>

\* C8, as stated: bytes other than whitespace after the number always give
\* Invalid, whatever the number.
C8_GarbageIsInvalid ==
    (Done /\ GarbageAfterNumber(input)) => result = Invalid

\* C8, amended: bytes other than whitespace after the number give Overflow
\* when the number's exponent, precision or scale is out of range and
\* Invalid otherwise; an exponent marker without digits gives Invalid;
\* whitespace added or removed at the two ends of the input changes neither
\* the result nor the value.
C8_GarbageFailsAndWhitespaceIsNeutral ==
    Done =>
        /\ GarbageAfterNumber(input) =>
               result = IF NumberFits(NumberOf(input)) THEN Invalid ELSE Overflow
        /\ ExponentWithoutDigits(input) => result = Invalid
        /\ Outcome = OutcomeOf(from_str(Trimmed(input)))
        /\ Outcome = OutcomeOf(from_str(Padded(input)))

\* a number with an exponent out of range, followed by garbage, has failed
\* with Overflow
C8_Witness ==
    /\ Done
    /\ GarbageAfterNumber(input)
    /\ ~ExponentFits(NumberOf(input))
    /\ result = Overflow

\* the first three bytes after the leading whitespace and an optional sign
\* spell "nan" in some letter case
NanText(str) ==
    LET a == IndexOut(str, WS, 1)
        b == IF a <= Len(str) /\ str[a] \in {"+", "-"} THEN a + 1 ELSE a
    IN  /\ b + 2 <= Len(str)
        /\ str[b] \in {"n", "N"}
        /\ str[b + 1] \in {"a", "A"}
        /\ str[b + 2] \in {"n", "N"}

ZerosPrepended(str, k) ==
    LET a == IndexOut(str, WS, 1)
        b == IF a <= Len(str) /\ str[a] \in {"+", "-"} THEN a + 1 ELSE a
    IN  SubSeq(str, 1, b - 1) \o Rep("0", k) \o SubSeq(str, b, Len(str))

\* str with k zeros put behind its fractional run
ZerosAppended(str, k) ==
    LET p == IndexIn(str, {"."}, 1)
        e == IndexOut(str, Digit, p + 1)
    IN  SubSeq(str, 1, e - 1) \o Rep("0", k) \o SubSeq(str, e, Len(str))

\* C10: zeros in front of the integral run, or behind the fractional run
\* of a literal with a '.', change neither the result nor the value.
C10_ZerosAreNeutral ==
    (Done /\ MatchesGrammar(input)) =>
        \A k \in 1..(MaxPad + 1) :
            /\ Outcome = OutcomeOf(from_str(ZerosPrepended(input, k)))
            /\ HasPoint(input) =>
                   Outcome = OutcomeOf(from_str(ZerosAppended(input, k)))

\* a literal with a fractional digit other than zero has been parsed
C10_Witness ==
    /\ Done
    /\ MatchesGrammar(input)
    /\ HasPoint(input)
    /\ NormalFractional(input) # <<>>
    /\ result = "Ok"

====
